---- MODULE Spec2Model ----
(***************************************************************************)
(* Model of the Memory-Management-Simulator: the intrusive free-list       *)
(* allocator of src/src/allocator.cpp over the byte array g_heap, and the  *)
(* multi-level cache controller of src/src/cache.cpp that every read,      *)
(* write and access drives.                                                *)
(*                                                                         *)
(* The block headers live INSIDE g_heap, exactly as in the program: every  *)
(* header field is decoded from, and encoded into, the heap bytes, so a    *)
(* read or write whose range check lets it leave the payload really reads  *)
(* and clobbers header bytes.                                              *)
(*                                                                         *)
(* Machine.  TLC's integers are 32 bits wide, so the LP64 machine of the   *)
(* program (8-byte size_t and pointers, 4-byte int, 56-byte BlockHeader,   *)
(* alignof(max_align_t) = 16, 64 KiB heap) is modelled at one quarter of   *)
(* its byte widths: 2-byte size_t and pointers, 1-byte int, a 14-byte      *)
(* BlockHeader of the same seven words, alignment 4 (two words, as 16 is), *)
(* split slack 2 (one word, as 8 is).  The heap is HEAP_SIZE bytes, like   *)
(* 64 KiB a multiple of the alignment, so that HEAP_SIZE - HeaderSize has  *)
(* the same residue (half the alignment) as 65536 - 56 has modulo 16.      *)
(***************************************************************************)
EXTENDS Integers, Sequences, FiniteSets, TLC

\* ---------------------------------------------------------------- bounds
MaxId       == 2   \* allocations are attempted while g_next_id < MaxId
MaxRequests == 3   \* and while g_alloc_requests < MaxRequests
MaxClock    == 2   \* reads, writes and accesses run while m_timestamp <= MaxClock
MaxLen      == 2   \* longest buffer handed to read / write
MaxBlocks   == 5   \* allocations that build a block list for fit selection
MaxAccesses == 4   \* cache accesses are made while m_total_accesses < MaxAccesses
MaxLevels   == 2   \* levels are added while there are fewer than MaxLevels

\* ------------------------------------------------------- machine constants
SizeMod     == 65536          \* std::size_t and pointers wrap modulo 2^16
HEAP_SIZE   == 128            \* bytes of g_heap
HeapBase    == 4096           \* address of g_heap[0]
HeaderSize  == 14             \* sizeof(BlockHeader)
Align       == 4              \* alignof(std::max_align_t)
SplitSlack  == 2              \* the "+ 8" of split_block_if_needed
PATTERN_UNINITIALIZED == 205  \* 0xCD
PATTERN_FREED         == 221  \* 0xDD
NULL        == 0              \* nullptr

\* byte offsets of the BlockHeader fields
OffId        == 0    \* int id               (1 byte, 1 byte padding)
OffStart     == 2    \* std::uint8_t *start
OffSize      == 4    \* std::size_t size
OffRequested == 6    \* std::size_t requested_size
OffFree      == 8    \* bool free
OffCacheable == 9    \* bool cacheable
OffHits      == 10   \* std::size_t cache_hits
OffNext      == 12   \* BlockHeader *next

VARIABLES
    g_heap,              \* [0..HEAP_SIZE-1 -> 0..255]
    g_head,              \* pointer to the first header, NULL before the first call
    g_next_id,
    g_cache_initialized,
    g_alloc_requests,
    g_alloc_success,
    g_alloc_fail,
    g_cache,             \* the MultiLevelCache singleton
    undefined            \* the program has executed undefined behaviour

vars == <<g_heap, g_head, g_next_id, g_cache_initialized, g_alloc_requests,
          g_alloc_success, g_alloc_fail, g_cache, undefined>>

\* ------------------------------------------------------------ raw memory
\* p .. p+len-1 lies inside g_heap
InHeap(p, len) == p >= HeapBase /\ p + len <= HeapBase + HEAP_SIZE

RdByte(h, p) == h[p - HeapBase]
RdWord(h, p) == h[p - HeapBase] + 256 * h[p - HeapBase + 1]
RdInt(h, p)  == IF h[p - HeapBase] >= 128 THEN h[p - HeapBase] - 256 ELSE h[p - HeapBase]

WrByte(h, p, v) == [h EXCEPT ![p - HeapBase] = v]
WrWord(h, p, v) == [h EXCEPT ![p - HeapBase] = v % 256, ![p - HeapBase + 1] = v \div 256]
WrInt(h, p, v)  == [h EXCEPT ![p - HeapBase] = v % 256]

\* std::memset(p, v, n), the range inside g_heap
MemSet(h, p, v, n) ==
    [o \in DOMAIN h |-> IF o >= p - HeapBase /\ o < p - HeapBase + n THEN v ELSE h[o]]

\* ------------------------------------------------------------ cache level
CacheLine0 == [valid |-> FALSE, tag |-> 0, freq |-> 0, last_used |-> 0]
CacheLevelStats0 == [accesses |-> 0, hits |-> 0, misses |-> 0, miss_penalty_accum |-> 0]

\* CacheLevel::CacheLevel: the normalisation of the configured geometry
CacheLevel(size_bytes, block_size, associativity, access_latency_cycles, level_index) ==
    LET bs   == IF block_size = 0 THEN 1 ELSE block_size
        as0  == IF associativity = 0 THEN 1 ELSE associativity
        lat  == IF access_latency_cycles = 0 THEN 1 ELSE access_latency_cycles
        nl0  == size_bytes \div bs
        num_lines == IF nl0 = 0 THEN 1 ELSE nl0
        as1  == IF as0 > num_lines THEN num_lines ELSE as0
        ns0  == num_lines \div as1
        sets == IF ns0 = 0 THEN 1 ELSE ns0
        ways == IF ns0 = 0 THEN num_lines ELSE as1
    IN  [m_size_bytes    |-> size_bytes,
         m_block_size    |-> bs,
         m_associativity |-> ways,
         m_latency       |-> lat,
         m_num_sets      |-> sets,
         m_level_index   |-> level_index,
         m_sets          |-> <<>>,
         m_stats         |-> CacheLevelStats0]

\* m_sets[set_idx].  m_sets is kept sparse: it maps the sets a line was inserted
\* into; every other set is as the constructor made it, m_associativity invalid
\* lines.
SetOf(lvl, set_idx) ==
    IF set_idx \in DOMAIN lvl.m_sets THEN lvl.m_sets[set_idx]
    ELSE [w \in 0..(lvl.m_associativity - 1) |-> CacheLine0]

\* m_sets[set_idx] = set
WithSet(lvl, set_idx, set) ==
    [lvl EXCEPT !.m_sets = [s \in (DOMAIN @) \cup {set_idx} |->
                               IF s = set_idx THEN set ELSE @[s]]]

\* CacheLevel::compute_index_tag
compute_index_tag(lvl, addr) ==
    LET block_addr == addr \div lvl.m_block_size
    IN  [set_idx |-> block_addr % lvl.m_num_sets, tag |-> block_addr \div lvl.m_num_sets]

\* the ways of set `set` that hold `tag`
HitWays(set, tag) == {w \in DOMAIN set : set[w].valid /\ set[w].tag = tag}

SetMin(S) == CHOOSE x \in S : \A y \in S : x <= y

\* a lookup that compares the tag of way 0 only
LevelAccess_way0(lvl, addr, timestamp) ==
    LET it   == compute_index_tag(lvl, addr)
        set  == SetOf(lvl, it.set_idx)
        ways == HitWays(set, it.tag) \cap {0}
    IN  IF ways = {} THEN [hit |-> FALSE, lvl |-> lvl]
        ELSE [hit |-> TRUE,
              lvl |-> WithSet(lvl, it.set_idx,
                          [set EXCEPT ![0] = [@ EXCEPT !.freq = @ + 1,
                                                       !.last_used = timestamp]])]

\* CacheLevel::access: the first way holding the tag is refreshed
LevelAccess(lvl, addr, timestamp) ==
    LET it   == compute_index_tag(lvl, addr)
        set  == SetOf(lvl, it.set_idx)
        ways == HitWays(set, it.tag)
    IN  IF ways = {} THEN [hit |-> FALSE, lvl |-> lvl]
        ELSE LET w == SetMin(ways)
             IN  [hit |-> TRUE,
                  lvl |-> WithSet(lvl, it.set_idx,
                              [set EXCEPT ![w] = [@ EXCEPT !.freq = @ + 1,
                                                           !.last_used = timestamp]])]

\* a victim scan by age alone: least last_used, whatever the frequency
RECURSIVE VictimScan_lru(_, _, _)
VictimScan_lru(set, i, victim_idx) ==
    IF i >= Cardinality(DOMAIN set) THEN victim_idx
    ELSE IF set[i].last_used < set[victim_idx].last_used
         THEN VictimScan_lru(set, i + 1, i)
         ELSE VictimScan_lru(set, i + 1, victim_idx)

\* the victim scan of CacheLevel::insert: least freq, then least last_used
RECURSIVE VictimScan(_, _, _)
VictimScan(set, i, victim_idx) ==
    IF i >= Cardinality(DOMAIN set) THEN victim_idx
    ELSE LET curr == set[i]
             vict == set[victim_idx]
         IN  IF curr.freq < vict.freq
             THEN VictimScan(set, i + 1, i)
             ELSE IF curr.freq = vict.freq /\ curr.last_used < vict.last_used
                  THEN VictimScan(set, i + 1, i)
                  ELSE VictimScan(set, i + 1, victim_idx)

\* CacheLevel::insert
LevelInsert(lvl, addr, timestamp) ==
    LET it      == compute_index_tag(lvl, addr)
        set     == SetOf(lvl, it.set_idx)
        invalid == {w \in DOMAIN set : ~set[w].valid}
        w       == IF invalid # {} THEN SetMin(invalid) ELSE VictimScan(set, 1, 0)
    IN  WithSet(lvl, it.set_idx,
            [set EXCEPT ![w] = [valid |-> TRUE, tag |-> it.tag, freq |-> 1,
                                last_used |-> timestamp]])

\* ------------------------------------------------------- cache controller
\* MultiLevelCache::reset
CacheReset ==
    [m_levels |-> <<>>, m_memory_latency |-> 100, m_timestamp |-> 0,
     m_total_accesses |-> 0, m_total_hits |-> 0, m_total_misses |-> 0,
     m_total_penalty |-> 0]

\* MultiLevelCache::set_memory_latency
SetMemoryLatency(c, latency_cycles) ==
    [c EXCEPT !.m_memory_latency = IF latency_cycles = 0 THEN 1 ELSE latency_cycles]

\* MultiLevelCache::add_level
AddLevel(c, size_bytes, block_size, associativity, access_latency_cycles) ==
    [c EXCEPT !.m_levels = Append(@, CacheLevel(size_bytes, block_size, associativity,
                                                access_latency_cycles, Len(c.m_levels)))]

\* MultiLevelCache::configure_level
ConfigureLevel(c, level_index, size_bytes, block_size, associativity, access_latency_cycles) ==
    IF level_index >= Len(c.m_levels) THEN c
    ELSE [c EXCEPT !.m_levels[level_index + 1] =
             CacheLevel(size_bytes, block_size, associativity, access_latency_cycles, level_index)]

\* cache_init_default
CacheInitDefault ==
    SetMemoryLatency(AddLevel(AddLevel(CacheReset, 4 * 1024, 64, 4, 1), 32 * 1024, 64, 8, 8), 100)

\* the level walk of MultiLevelCache::access, from level i (0-based) on
RECURSIVE LevelWalk(_, _, _, _, _, _)
LevelWalk(levels, i, addr, timestamp, total_penalty, miss_records) ==
    IF i >= Len(levels)
    THEN [levels |-> levels, hit_any |-> FALSE, level_hit |-> -1,
          total_penalty |-> total_penalty, miss_records |-> miss_records]
    ELSE LET lvl     == levels[i + 1]
             penalty == total_penalty + lvl.m_latency
             looked  == LevelAccess(lvl, addr, timestamp)
             st      == [looked.lvl.m_stats EXCEPT !.accesses = @ + 1]
         IN  IF looked.hit
             THEN [levels |-> [levels EXCEPT ![i + 1] =
                                  [looked.lvl EXCEPT !.m_stats = [st EXCEPT !.hits = @ + 1]]],
                   hit_any |-> TRUE, level_hit |-> i,
                   total_penalty |-> penalty, miss_records |-> miss_records]
             ELSE LevelWalk([levels EXCEPT ![i + 1] =
                                [looked.lvl EXCEPT !.m_stats = [st EXCEPT !.misses = @ + 1]]],
                            i + 1, addr, timestamp, penalty,
                            Append(miss_records, [level |-> i, penalty_upto_level |-> penalty]))

\* a fill that inserts into every level, whatever level hit
FillLevels_all(levels, addr, timestamp, fill_upto) ==
    [k \in DOMAIN levels |-> LevelInsert(levels[k], addr, timestamp)]

\* the inclusive fill of MultiLevelCache::access: levels 0..fill_upto
FillLevels(levels, addr, timestamp, fill_upto) ==
    [k \in DOMAIN levels |->
        IF k - 1 <= fill_upto THEN LevelInsert(levels[k], addr, timestamp) ELSE levels[k]]

\* an attribution that charges every level that missed the whole penalty
AttributePenalty_whole(levels, miss_records, total_penalty) ==
    [k \in DOMAIN levels |->
        IF \E r \in DOMAIN miss_records : miss_records[r].level = k - 1
        THEN [levels[k] EXCEPT !.m_stats.miss_penalty_accum = @ + total_penalty]
        ELSE levels[k]]

\* the miss-penalty attribution of MultiLevelCache::access
AttributePenalty(levels, miss_records, total_penalty) ==
    [k \in DOMAIN levels |->
        LET recs == {r \in DOMAIN miss_records : miss_records[r].level = k - 1}
        IN  IF recs = {} THEN levels[k]
            ELSE LET rec   == miss_records[SetMin(recs)]
                     extra == IF total_penalty > rec.penalty_upto_level
                              THEN total_penalty - rec.penalty_upto_level ELSE 0
                 IN  [levels[k] EXCEPT !.m_stats.miss_penalty_accum = @ + extra]]

\* MultiLevelCache::access without the count of a global miss
CacheAccess_no_miss_count(c, addr) ==
    IF c.m_levels = <<>> THEN c
    ELSE LET ts        == c.m_timestamp + 1
             walk      == LevelWalk(c.m_levels, 0, addr, ts, 0, <<>>)
             penalty   == IF walk.hit_any THEN walk.total_penalty
                          ELSE walk.total_penalty + c.m_memory_latency
             level_hit == IF walk.hit_any THEN walk.level_hit ELSE Len(c.m_levels)
             fill_upto == IF level_hit = Len(c.m_levels) THEN Len(c.m_levels) - 1 ELSE level_hit
             filled    == FillLevels(walk.levels, addr, ts, fill_upto)
         IN  [c EXCEPT !.m_levels         = AttributePenalty(filled, walk.miss_records, penalty),
                       !.m_timestamp      = ts,
                       !.m_total_accesses = @ + 1,
                       !.m_total_hits     = IF walk.hit_any THEN @ + 1 ELSE @,
                       !.m_total_penalty  = @ + penalty]

\* MultiLevelCache::access (is_write is ignored by the code)
CacheAccess(c, addr) ==
    IF c.m_levels = <<>> THEN c
    ELSE LET ts        == c.m_timestamp + 1
             walk      == LevelWalk(c.m_levels, 0, addr, ts, 0, <<>>)
             penalty   == IF walk.hit_any THEN walk.total_penalty
                          ELSE walk.total_penalty + c.m_memory_latency
             level_hit == IF walk.hit_any THEN walk.level_hit ELSE Len(c.m_levels)
             fill_upto == IF level_hit = Len(c.m_levels) THEN Len(c.m_levels) - 1 ELSE level_hit
             filled    == FillLevels(walk.levels, addr, ts, fill_upto)
         IN  [c EXCEPT !.m_levels         = AttributePenalty(filled, walk.miss_records, penalty),
                       !.m_timestamp      = ts,
                       !.m_total_accesses = @ + 1,
                       !.m_total_hits     = IF walk.hit_any THEN @ + 1 ELSE @,
                       !.m_total_misses   = IF walk.hit_any THEN @ ELSE @ + 1,
                       !.m_total_penalty  = @ + penalty]

\* cache_access for the bytes p+n-1, .., p+1, p in this order
RECURSIVE CacheAccessRun_descending(_, _, _)
CacheAccessRun_descending(c, p, n) ==
    IF n = 0 THEN c
    ELSE CacheAccess(CacheAccessRun_descending(c, (p + 1) % SizeMod, n - 1), p)

\* cache_access for the bytes p, p+1, .., p+n-1 in this order
RECURSIVE CacheAccessRun(_, _, _)
CacheAccessRun(c, p, n) ==
    IF n = 0 THEN c ELSE CacheAccessRun(CacheAccess(c, p), (p + 1) % SizeMod, n - 1)

\* --------------------------------------------------------- block headers
\* the fields of the BlockHeader at address p, decoded from the heap bytes
HdrId(h, p)        == RdInt(h, p + OffId)
HdrStart(h, p)     == RdWord(h, p + OffStart)
HdrSize(h, p)      == RdWord(h, p + OffSize)
HdrRequested(h, p) == RdWord(h, p + OffRequested)
HdrFree(h, p)      == RdByte(h, p + OffFree)
HdrCacheable(h, p) == RdByte(h, p + OffCacheable)
HdrHits(h, p)      == RdWord(h, p + OffHits)
HdrNext(h, p)      == RdWord(h, p + OffNext)

\* a BlockHeader can be read at p: it lies inside g_heap
ValidHdr(p) == InHeap(p, HeaderSize)
\* a bool object holds 0 or 1; reading any other byte as bool is undefined
IsBool(b) == b \in {0, 1}

\* a walk of the list visits each header address at most once, or never ends
Fuel == HEAP_SIZE

\* the header that allocator_init and split_block_if_needed write for a free block
WriteFreeHeader(h, p, size, next) ==
    LET h1 == WrInt(h, p + OffId, -1)
        h2 == WrWord(h1, p + OffStart, (p + HeaderSize) % SizeMod)
        h3 == WrWord(h2, p + OffSize, size)
        h4 == WrWord(h3, p + OffRequested, 0)
        h5 == WrByte(h4, p + OffFree, 1)
        h6 == WrByte(h5, p + OffCacheable, 0)
        h7 == WrWord(h6, p + OffHits, 0)
    IN  WrWord(h7, p + OffNext, next)

\* the process-wide state as one record
Globals ==
    [g_heap |-> g_heap, g_head |-> g_head, g_next_id |-> g_next_id,
     g_cache_initialized |-> g_cache_initialized,
     g_alloc_requests |-> g_alloc_requests, g_alloc_success |-> g_alloc_success,
     g_alloc_fail |-> g_alloc_fail, g_cache |-> g_cache]

\* what a call leaves: the state, whether it ran into undefined behaviour,
\* its return value and (read) the destination buffer
Returns(G, ret) == [G |-> G, ub |-> FALSE, ret |-> ret, buf |-> <<>>]
Undefined(G)    == [G |-> G, ub |-> TRUE,  ret |-> 0,   buf |-> <<>>]

\* allocator_init
allocator_init(G) ==
    IF G.g_head # NULL THEN G
    ELSE [G EXCEPT !.g_cache = IF G.g_cache_initialized THEN @ ELSE CacheInitDefault,
                   !.g_cache_initialized = TRUE,
                   !.g_head = HeapBase,
                   !.g_heap = WriteFreeHeader(@, HeapBase, HEAP_SIZE - HeaderSize, NULL)]

\* align_size: (size + align - 1) & ~(align - 1) in size_t arithmetic
align_size(size) ==
    LET s == (size + Align - 1) % SizeMod
    IN  s - (s % Align)

\* find_fit with the comparisons of Best and Worst made non-strict, so that of
\* equal sizes the latest wins
RECURSIVE find_fit_late_tie(_, _, _, _, _, _)
find_fit_late_tie(h, curr, size, strategy, candidate, fuel) ==
    IF curr = NULL THEN [ub |-> FALSE, ptr |-> candidate]
    ELSE IF fuel = 0 \/ ~ValidHdr(curr) \/ ~IsBool(HdrFree(h, curr))
    THEN [ub |-> TRUE, ptr |-> NULL]
    ELSE IF HdrFree(h, curr) = 0 \/ HdrSize(h, curr) < size
    THEN find_fit_late_tie(h, HdrNext(h, curr), size, strategy, candidate, fuel - 1)
    ELSE IF strategy = "First" THEN [ub |-> FALSE, ptr |-> curr]
    ELSE IF candidate = NULL
    THEN find_fit_late_tie(h, HdrNext(h, curr), size, strategy, curr, fuel - 1)
    ELSE IF strategy = "Best"
    THEN find_fit_late_tie(h, HdrNext(h, curr), size, strategy,
                  IF HdrSize(h, curr) <= HdrSize(h, candidate) THEN curr ELSE candidate,
                  fuel - 1)
    ELSE find_fit_late_tie(h, HdrNext(h, curr), size, strategy,
                  IF HdrSize(h, curr) >= HdrSize(h, candidate) THEN curr ELSE candidate,
                  fuel - 1)

\* find_fit, from curr on with the candidate found so far
RECURSIVE find_fit(_, _, _, _, _, _)
find_fit(h, curr, size, strategy, candidate, fuel) ==
    IF curr = NULL THEN [ub |-> FALSE, ptr |-> candidate]
    ELSE IF fuel = 0 \/ ~ValidHdr(curr) \/ ~IsBool(HdrFree(h, curr))
    THEN [ub |-> TRUE, ptr |-> NULL]
    ELSE IF HdrFree(h, curr) = 0 \/ HdrSize(h, curr) < size
    THEN find_fit(h, HdrNext(h, curr), size, strategy, candidate, fuel - 1)
    ELSE IF strategy = "First" THEN [ub |-> FALSE, ptr |-> curr]
    ELSE IF candidate = NULL
    THEN find_fit(h, HdrNext(h, curr), size, strategy, curr, fuel - 1)
    ELSE IF strategy = "Best"
    THEN find_fit(h, HdrNext(h, curr), size, strategy,
                  IF HdrSize(h, curr) < HdrSize(h, candidate) THEN curr ELSE candidate,
                  fuel - 1)
    ELSE find_fit(h, HdrNext(h, curr), size, strategy,
                  IF HdrSize(h, curr) > HdrSize(h, candidate) THEN curr ELSE candidate,
                  fuel - 1)

\* find_block_by_id, from hdr on
RECURSIVE find_block_by_id(_, _, _, _)
find_block_by_id(h, hdr, id, fuel) ==
    IF hdr = NULL THEN [ub |-> FALSE, ptr |-> NULL]
    ELSE IF fuel = 0 \/ ~ValidHdr(hdr) \/ ~IsBool(HdrFree(h, hdr))
    THEN [ub |-> TRUE, ptr |-> NULL]
    ELSE IF HdrFree(h, hdr) = 0 /\ HdrId(h, hdr) = id
    THEN [ub |-> FALSE, ptr |-> hdr]
    ELSE find_block_by_id(h, HdrNext(h, hdr), id, fuel - 1)

\* a split that is also made when the remainder is exactly a header and the slack
split_block_if_needed_at_slack(h, block, size) ==
    LET remaining == (HdrSize(h, block) - size) % SizeMod
        new_block == (block + HeaderSize + size) % SizeMod
    IN  IF remaining < HeaderSize + SplitSlack THEN [ub |-> FALSE, h |-> h]
        ELSE IF ~ValidHdr(new_block) THEN [ub |-> TRUE, h |-> h]
        ELSE LET h1 == WriteFreeHeader(h, new_block, remaining - HeaderSize,
                                       HdrNext(h, block))
                 h2 == WrWord(h1, block + OffSize, size)
             IN  [ub |-> FALSE, h |-> WrWord(h2, block + OffNext, new_block)]

\* split_block_if_needed
split_block_if_needed(h, block, size) ==
    LET remaining == (HdrSize(h, block) - size) % SizeMod
        new_block == (block + HeaderSize + size) % SizeMod
    IN  IF remaining <= HeaderSize + SplitSlack THEN [ub |-> FALSE, h |-> h]
        ELSE IF ~ValidHdr(new_block) THEN [ub |-> TRUE, h |-> h]
        ELSE LET h1 == WriteFreeHeader(h, new_block, remaining - HeaderSize,
                                       HdrNext(h, block))
                 h2 == WrWord(h1, block + OffSize, size)
             IN  [ub |-> FALSE, h |-> WrWord(h2, block + OffNext, new_block)]

\* coalesce_free_blocks, from curr on
RECURSIVE coalesce_free_blocks(_, _, _)
coalesce_free_blocks(h, curr, fuel) ==
    IF curr = NULL THEN [ub |-> FALSE, h |-> h]
    ELSE IF fuel = 0 \/ ~ValidHdr(curr) THEN [ub |-> TRUE, h |-> h]
    ELSE LET next == HdrNext(h, curr)
         IN  IF next = NULL THEN [ub |-> FALSE, h |-> h]
             ELSE IF ~IsBool(HdrFree(h, curr)) THEN [ub |-> TRUE, h |-> h]
             ELSE IF HdrFree(h, curr) = 0 THEN coalesce_free_blocks(h, next, fuel - 1)
             ELSE IF ~ValidHdr(next) \/ ~IsBool(HdrFree(h, next)) THEN [ub |-> TRUE, h |-> h]
             ELSE IF HdrFree(h, next) = 1
                     /\ (curr + HeaderSize + HdrSize(h, curr)) % SizeMod = next
             THEN LET h1 == WrWord(h, curr + OffSize,
                                   (HdrSize(h, curr) + HeaderSize + HdrSize(h, next)) % SizeMod)
                      h2 == WrWord(h1, curr + OffRequested, 0)
                      h3 == WrWord(h2, curr + OffNext, HdrNext(h, next))
                  IN  coalesce_free_blocks(h3, curr, fuel - 1)
             ELSE coalesce_free_blocks(h, next, fuel - 1)

\* ------------------------------------------------------ public operations
\* allocator_malloc taking the id before it looks for a block, so that a
\* failed allocation consumes one
allocator_malloc_early_id(G0, size, strategy) ==
    LET G   == allocator_init(G0)
        G1  == [G EXCEPT !.g_alloc_requests = @ + 1, !.g_next_id = @ + 1]
        aligned_size == align_size(size)
        fit == find_fit(G.g_heap, G.g_head, aligned_size, strategy, NULL, Fuel)
    IN  IF size = 0 THEN Returns(G, -1)
        ELSE IF fit.ub THEN Undefined(G0)
        ELSE IF fit.ptr = NULL
        THEN Returns([G1 EXCEPT !.g_alloc_fail = @ + 1], -1)
        ELSE LET block == fit.ptr
                 sp    == split_block_if_needed(G.g_heap, block, aligned_size)
                 start == (block + HeaderSize) % SizeMod
                 h1    == WrByte(sp.h, block + OffFree, 0)
                 h2    == WrInt(h1, block + OffId, G.g_next_id)
                 h3    == WrByte(h2, block + OffCacheable, 1)
                 h4    == WrWord(h3, block + OffHits, 0)
                 h5    == WrWord(h4, block + OffStart, start)
                 h6    == WrWord(h5, block + OffRequested, size)
                 bsize == HdrSize(h6, block)
                 offset == start - HeapBase
             IN  IF sp.ub \/ ~InHeap(start, bsize) THEN Undefined(G0)
                 ELSE Returns([G1 EXCEPT !.g_heap = MemSet(h6, start, PATTERN_UNINITIALIZED, bsize),
                                         !.g_alloc_success = @ + 1],
                              IF offset < 0 \/ offset >= HEAP_SIZE THEN -1 ELSE G.g_next_id)

\* allocator_malloc(size, strategy)
allocator_malloc(G0, size, strategy) ==
    LET G   == allocator_init(G0)
        G1  == [G EXCEPT !.g_alloc_requests = @ + 1]
        aligned_size == align_size(size)
        fit == find_fit(G.g_heap, G.g_head, aligned_size, strategy, NULL, Fuel)
    IN  IF size = 0 THEN Returns(G, -1)
        ELSE IF fit.ub THEN Undefined(G0)
        ELSE IF fit.ptr = NULL
        THEN Returns([G1 EXCEPT !.g_alloc_fail = @ + 1], -1)
        ELSE LET block == fit.ptr
                 sp    == split_block_if_needed(G.g_heap, block, aligned_size)
                 start == (block + HeaderSize) % SizeMod
                 h1    == WrByte(sp.h, block + OffFree, 0)
                 h2    == WrInt(h1, block + OffId, G.g_next_id)
                 h3    == WrByte(h2, block + OffCacheable, 1)
                 h4    == WrWord(h3, block + OffHits, 0)
                 h5    == WrWord(h4, block + OffStart, start)
                 h6    == WrWord(h5, block + OffRequested, size)
                 bsize == HdrSize(h6, block)
                 offset == start - HeapBase
             IN  IF sp.ub \/ ~InHeap(start, bsize) THEN Undefined(G0)
                 ELSE Returns([G1 EXCEPT !.g_heap = MemSet(h6, start, PATTERN_UNINITIALIZED, bsize),
                                         !.g_next_id = @ + 1,
                                         !.g_alloc_success = @ + 1],
                              IF offset < 0 \/ offset >= HEAP_SIZE THEN -1 ELSE G.g_next_id)

\* allocator_free with a memset that runs one byte past the payload
allocator_free_overrun(G0, id) ==
    LET G     == allocator_init(G0)
        found == find_block_by_id(G.g_heap, G.g_head, id, Fuel)
    IN  IF id < 0 THEN Returns(G, 0)
        ELSE IF found.ub THEN Undefined(G0)
        ELSE IF found.ptr = NULL THEN Returns(G, 0)
        ELSE LET hdr == found.ptr
                 h1  == WrByte(G.g_heap, hdr + OffFree, 1)
                 h2  == WrInt(h1, hdr + OffId, -1)
                 h3  == WrByte(h2, hdr + OffCacheable, 0)
                 h4  == WrWord(h3, hdr + OffHits, 0)
                 start == HdrStart(h4, hdr)
                 bsize == HdrSize(h4, hdr) + 1
             IN  IF ~InHeap(start, bsize) THEN Undefined(G0)
                 ELSE LET co == coalesce_free_blocks(
                                    MemSet(h4, start, PATTERN_FREED, bsize), G.g_head,
                                    2 * Fuel)
                      IN  IF co.ub THEN Undefined(G0)
                          ELSE Returns([G EXCEPT !.g_heap = co.h], 0)

\* allocator_free(id)
allocator_free(G0, id) ==
    LET G     == allocator_init(G0)
        found == find_block_by_id(G.g_heap, G.g_head, id, Fuel)
    IN  IF id < 0 THEN Returns(G, 0)
        ELSE IF found.ub THEN Undefined(G0)
        ELSE IF found.ptr = NULL THEN Returns(G, 0)
        ELSE LET hdr == found.ptr
                 h1  == WrByte(G.g_heap, hdr + OffFree, 1)
                 h2  == WrInt(h1, hdr + OffId, -1)
                 h3  == WrByte(h2, hdr + OffCacheable, 0)
                 h4  == WrWord(h3, hdr + OffHits, 0)
                 start == HdrStart(h4, hdr)
                 bsize == HdrSize(h4, hdr)
             IN  IF ~InHeap(start, bsize) THEN Undefined(G0)
                 ELSE LET co == coalesce_free_blocks(
                                    MemSet(h4, start, PATTERN_FREED, bsize), G.g_head,
                                    2 * Fuel)
                      IN  IF co.ub THEN Undefined(G0)
                          ELSE Returns([G EXCEPT !.g_heap = co.h], 0)

\* allocator_set_block_cacheable(id, cacheable)
allocator_set_block_cacheable(G0, id, cacheable) ==
    LET G     == allocator_init(G0)
        found == find_block_by_id(G.g_heap, G.g_head, id, Fuel)
    IN  IF id < 0 THEN Returns(G, 0)
        ELSE IF found.ub THEN Undefined(G0)
        ELSE IF found.ptr = NULL THEN Returns(G, 0)
        ELSE Returns([G EXCEPT !.g_heap = WrByte(@, found.ptr + OffCacheable,
                                                 IF cacheable THEN 1 ELSE 0)], 0)

\* allocator_access(id, is_write)
allocator_access(G0, id, is_write) ==
    LET G     == allocator_init(G0)
        found == find_block_by_id(G.g_heap, G.g_head, id, Fuel)
    IN  IF id < 0 THEN Returns(G, 0)
        ELSE IF found.ub THEN Undefined(G0)
        ELSE IF found.ptr = NULL THEN Returns(G, 0)
        ELSE IF ~IsBool(HdrCacheable(G.g_heap, found.ptr)) THEN Undefined(G0)
        ELSE IF HdrCacheable(G.g_heap, found.ptr) = 0 THEN Returns(G, 0)
        ELSE Returns([G EXCEPT
                 !.g_cache = CacheAccess(@, HdrStart(G.g_heap, found.ptr)),
                 !.g_heap  = WrWord(@, found.ptr + OffHits,
                                    (HdrHits(G.g_heap, found.ptr) + 1) % SizeMod)], 0)

\* the addresses p, p+1, .., p+n-1 of a byte loop, in pointer arithmetic
Addr(p, i) == (p + i) % SizeMod
AllInHeap(p, n) == \A i \in 0..(n - 1) : InHeap(Addr(p, i), 1)
IsGarbage(v) == v = PATTERN_UNINITIALIZED \/ v = PATTERN_FREED

\* allocator_read(id, offset, dst, size); dst_ok: dst is not a null pointer
allocator_read(G0, id, offset, dst_ok, size) ==
    LET G     == allocator_init(G0)
        found == find_block_by_id(G.g_heap, G.g_head, id, Fuel)
    IN  IF id < 0 \/ ~dst_ok \/ size = 0 THEN Returns(G, FALSE)
        ELSE IF found.ub THEN Undefined(G0)
        ELSE IF found.ptr = NULL THEN Returns(G, FALSE)
        ELSE IF (offset + size) % SizeMod > HdrRequested(G.g_heap, found.ptr)
        THEN Returns(G, FALSE)
        ELSE LET src_bytes == Addr(HdrStart(G.g_heap, found.ptr), offset)
                 buf == [i \in 1..size |-> RdByte(G.g_heap, Addr(src_bytes, i - 1))]
             IN  IF ~AllInHeap(src_bytes, size) THEN Undefined(G0)
                 ELSE [G   |-> [G EXCEPT !.g_cache = CacheAccessRun(@, src_bytes, size)],
                       ub  |-> FALSE,
                       ret |-> ~(\E i \in 1..size : IsGarbage(buf[i])),
                       buf |-> buf]

\* the second pass of allocator_write: dst_bytes[i] = src_bytes[i], i = from..
RECURSIVE CopyBytes(_, _, _, _)
CopyBytes(h, dst_bytes, src, i) ==
    IF i > Len(src) THEN h
    ELSE CopyBytes(WrByte(h, Addr(dst_bytes, i - 1), src[i]), dst_bytes, src, i + 1)

\* allocator_write with the early return on garbage that the code has
\* commented out
allocator_write_reject_garbage(G0, id, offset, src_ok, src) ==
    LET G     == allocator_init(G0)
        size  == Len(src)
        found == find_block_by_id(G.g_heap, G.g_head, id, Fuel)
    IN  IF id < 0 \/ ~src_ok \/ size = 0 THEN Returns(G, FALSE)
        ELSE IF found.ub THEN Undefined(G0)
        ELSE IF found.ptr = NULL THEN Returns(G, FALSE)
        ELSE IF (offset + size) % SizeMod > HdrRequested(G.g_heap, found.ptr)
        THEN Returns(G, FALSE)
        ELSE LET dst_bytes == Addr(HdrStart(G.g_heap, found.ptr), offset)
             IN  IF ~AllInHeap(dst_bytes, size) THEN Undefined(G0)
                 ELSE IF \E i \in 0..(size - 1) :
                             IsGarbage(RdByte(G.g_heap, Addr(dst_bytes, i)))
                 THEN Returns(G, FALSE)
                 ELSE Returns([G EXCEPT
                          !.g_cache = CacheAccessRun(@, dst_bytes, size),
                          !.g_heap  = CopyBytes(@, dst_bytes, src, 1)], TRUE)

\* allocator_write(id, offset, src, size); src is the sequence of size bytes,
\* src_ok: src is not a null pointer
allocator_write(G0, id, offset, src_ok, src) ==
    LET G     == allocator_init(G0)
        size  == Len(src)
        found == find_block_by_id(G.g_heap, G.g_head, id, Fuel)
    IN  IF id < 0 \/ ~src_ok \/ size = 0 THEN Returns(G, FALSE)
        ELSE IF found.ub THEN Undefined(G0)
        ELSE IF found.ptr = NULL THEN Returns(G, FALSE)
        ELSE IF (offset + size) % SizeMod > HdrRequested(G.g_heap, found.ptr)
        THEN Returns(G, FALSE)
        ELSE LET dst_bytes == Addr(HdrStart(G.g_heap, found.ptr), offset)
             IN  IF ~AllInHeap(dst_bytes, size) THEN Undefined(G0)
                 ELSE Returns([G EXCEPT
                          !.g_cache = CacheAccessRun(@, dst_bytes, size),
                          !.g_heap  = CopyBytes(@, dst_bytes, src, 1)], TRUE)

\* --------------------------------------------------------------- inputs
Strategies == {"First", "Best", "Worst"}
\* request sizes: none, small, one that leaves too little to split, too
\* large, and the largest size_t, whose rounding up wraps
AllocSizes == {0, 1, HEAP_SIZE - 2 * HeaderSize, HEAP_SIZE, SizeMod - 1}
Ids        == -1..MaxId
\* offsets into a block: its first bytes, and offsets whose pointer or sum
\* wraps: back to the block's own free flag, and to the byte before the payload
Offsets    == {0, 1, SizeMod - (HeaderSize - OffFree), SizeMod - 1}
\* source buffers: "A" repeated 0..MaxLen times, the bytes 0 and 1, a poison byte
Buffers    == {[i \in 1..n |-> 65] : n \in 0..MaxLen}
                  \cup {<<0>>, <<1>>, <<PATTERN_UNINITIALIZED>>}

\* ------------------------------------------------------------ the machine
Init ==
    /\ g_heap = [o \in 0..(HEAP_SIZE - 1) |-> 0]
    /\ g_head = NULL
    /\ g_next_id = 0
    /\ g_cache_initialized = FALSE
    /\ g_alloc_requests = 0
    /\ g_alloc_success = 0
    /\ g_alloc_fail = 0
    /\ g_cache = CacheReset
    /\ undefined = FALSE

\* the call r completes, or runs into undefined behaviour
Do(call) == \E r \in {call} :
    /\ ~undefined
    /\ r.G.g_cache.m_timestamp <= MaxClock
    /\ undefined' = r.ub
    /\ g_heap' = r.G.g_heap
    /\ g_head' = r.G.g_head
    /\ g_next_id' = r.G.g_next_id
    /\ g_cache_initialized' = r.G.g_cache_initialized
    /\ g_alloc_requests' = r.G.g_alloc_requests
    /\ g_alloc_success' = r.G.g_alloc_success
    /\ g_alloc_fail' = r.G.g_alloc_fail
    /\ g_cache' = r.G.g_cache

Malloc(size, strategy) ==
    /\ g_next_id < MaxId
    /\ g_alloc_requests < MaxRequests
    /\ Do(allocator_malloc(Globals, size, strategy))

Free(id) == Do(allocator_free(Globals, id))

SetCacheable(id, cacheable) == Do(allocator_set_block_cacheable(Globals, id, cacheable))

Access(id, is_write) == Do(allocator_access(Globals, id, is_write))

Read(id, offset, dst_ok, size) == Do(allocator_read(Globals, id, offset, dst_ok, size))

Write(id, offset, src_ok, src) == Do(allocator_write(Globals, id, offset, src_ok, src))

Next ==
    \/ \E size \in AllocSizes, strategy \in Strategies : Malloc(size, strategy)
    \/ \E id \in Ids : Free(id)
    \/ \E id \in Ids, cacheable \in BOOLEAN : SetCacheable(id, cacheable)
    \/ \E id \in Ids, is_write \in BOOLEAN : Access(id, is_write)
    \/ \E id \in Ids, offset \in Offsets, size \in 0..MaxLen :
           Read(id, offset, TRUE, size)
    \/ \E id \in Ids : Read(id, 0, FALSE, 1)
    \/ \E id \in Ids, offset \in Offsets, src \in Buffers :
           Write(id, offset, TRUE, src)
    \/ \E id \in Ids : Write(id, 0, FALSE, <<65>>)

Spec == Init /\ [][Next]_vars

\* ------------------------------------------------- reading the block list
\* the headers reachable from p, in list order (as far as they can be read)
RECURSIVE BlocksFrom(_, _, _)
BlocksFrom(h, p, fuel) ==
    IF p = NULL \/ ~ValidHdr(p) \/ fuel = 0 THEN <<>>
    ELSE <<p>> \o BlocksFrom(h, HdrNext(h, p), fuel - 1)

Blocks(G) == BlocksFrom(G.g_heap, G.g_head, Fuel)

\* the blocks the code treats as free / as allocated
FreeBlocks(G)  == {i \in DOMAIN Blocks(G) : HdrFree(G.g_heap, Blocks(G)[i]) # 0}
AllocBlocks(G) == {i \in DOMAIN Blocks(G) : HdrFree(G.g_heap, Blocks(G)[i]) = 0}

RECURSIVE SumSizes(_, _, _)
SumSizes(h, L, I) ==
    IF I = {} THEN 0
    ELSE LET i == CHOOSE x \in I : TRUE
         IN  HdrSize(h, L[i]) + SumSizes(h, L, I \ {i})

\* total of the free payload bytes, as allocator_stats adds them up
TotalFree(G) == SumSizes(G.g_heap, Blocks(G), FreeBlocks(G))

\* the state after the step
GlobalsNext ==
    [g_heap |-> g_heap', g_head |-> g_head', g_next_id |-> g_next_id',
     g_cache_initialized |-> g_cache_initialized',
     g_alloc_requests |-> g_alloc_requests', g_alloc_success |-> g_alloc_success',
     g_alloc_fail |-> g_alloc_fail', g_cache |-> g_cache']

\* ================================================================ claims

\* C1: after any sequence of calls the block list reachable from the head
\* covers the heap exactly: the first header is at offset 0, each next header
\* starts at the previous header's offset + header size + size, the last block
\* ends at HEAP_SIZE, and the (header size + size) of the blocks add up to
\* HEAP_SIZE.
C1_ListCoversHeap ==
    g_head # NULL =>
        LET h == g_heap
            L == Blocks(Globals)
        IN  /\ Len(L) > 0
            /\ L[1] = HeapBase
            /\ \A i \in 1..(Len(L) - 1) : L[i + 1] = L[i] + HeaderSize + HdrSize(h, L[i])
            /\ HdrNext(h, L[Len(L)]) = NULL
            /\ L[Len(L)] + HeaderSize + HdrSize(h, L[Len(L)]) = HeapBase + HEAP_SIZE
            /\ SumSizes(h, L, DOMAIN L) + HeaderSize * Len(L) = HEAP_SIZE

\* C2: after every completed call no two blocks adjacent in the list are
\* both free.
C2_NoAdjacentFree ==
    LET h == g_heap
        L == Blocks(Globals)
    IN  \A i \in 1..(Len(L) - 1) :
            ~(HdrFree(h, L[i]) # 0 /\ HdrFree(h, L[i + 1]) # 0)

\* C3: the ids of the allocated blocks are pairwise distinct and
\* non-negative.
C3_LiveIdsDistinct ==
    LET h == g_heap
        L == Blocks(Globals)
    IN  \A i \in AllocBlocks(Globals) :
            /\ HdrId(h, L[i]) >= 0
            /\ \A j \in AllocBlocks(Globals) : HdrId(h, L[i]) = HdrId(h, L[j]) => i = j

\* C4: every allocated block has payload size >= its requested_size, for
\* every request size of size_t.
C4_SizeCoversRequest ==
    LET h == g_heap
        L == Blocks(Globals)
    IN  \A i \in AllocBlocks(Globals) : HdrSize(h, L[i]) >= HdrRequested(h, L[i])

\* the block of the list that find_block_by_id returns for id (NULL if none)
LiveBlock(G, id) == find_block_by_id(G.g_heap, G.g_head, id, Fuel)

\* C5: read and write return false, copy no byte and make no cache access
\* whenever the mathematical sum offset + n exceeds the block's
\* requested_size, also when the machine sum wraps around.
C5_RangeCheckRejects ==
    LET G == allocator_init(Globals)
    IN  \A id \in 0..MaxId, offset \in Offsets, n \in 1..MaxLen :
            LET found == LiveBlock(G, id)
                r == allocator_read(Globals, id, offset, TRUE, n)
                w == allocator_write(Globals, id, offset, TRUE, [i \in 1..n |-> 65])
            IN  (/\ ~found.ub
                 /\ found.ptr # NULL
                 /\ offset + n > HdrRequested(G.g_heap, found.ptr))
                => /\ ~r.ub => (r.ret = FALSE /\ r.G = G)
                   /\ ~w.ub => (w.ret = FALSE /\ w.G = G)

\* C6: immediately after a successful allocate(size) returning id, every
\* payload byte at offsets [0, requested_size) equals 0xCD, and read(id, o, n)
\* of an in-range o, n returns false and copies 0xCD into every destination
\* byte.
C6_FreshPayloadPoisoned ==
    \A size \in AllocSizes, strategy \in Strategies :
        LET m == allocator_malloc(Globals, size, strategy)
        IN  (~m.ub /\ m.ret >= 0) =>
                LET found == LiveBlock(m.G, m.ret)
                    h     == m.G.g_heap
                IN  /\ ~found.ub
                    /\ found.ptr # NULL
                    /\ HdrRequested(h, found.ptr) = size
                    /\ \A o \in 0..((IF size < HEAP_SIZE THEN size ELSE HEAP_SIZE) - 1) :
                           LET a == Addr(HdrStart(h, found.ptr), o)
                           IN  InHeap(a, 1) /\ RdByte(h, a) = PATTERN_UNINITIALIZED
                    /\ \A o \in 0..1, n \in 1..MaxLen :
                           o + n <= size =>
                               LET r == allocator_read(m.G, m.ret, o, TRUE, n)
                               IN  /\ ~r.ub
                                   /\ r.ret = FALSE
                                   /\ r.buf = [i \in 1..n |-> PATTERN_UNINITIALIZED]

\* C7: for a live block id and in-range o, n: after write(id, o, d, n)
\* returns true with no byte of d equal to 0xCD or 0xDD, read(id, o, buf, n)
\* returns true and buf = d; and read returns true exactly when the range is
\* valid and none of the n source bytes equals 0xCD or 0xDD.
C7_WriteReadRoundTrip ==
    LET G == allocator_init(Globals)
    IN  \A id \in 0..MaxId, o \in Offsets :
            LET found == LiveBlock(G, id)
            IN  (~found.ub /\ found.ptr # NULL) =>
                    /\ \A d \in Buffers :
                           LET w == allocator_write(Globals, id, o, TRUE, d)
                               r == allocator_read(w.G, id, o, TRUE, Len(d))
                           IN  (/\ Len(d) > 0
                                /\ o + Len(d) <= HdrRequested(G.g_heap, found.ptr)
                                /\ \A i \in 1..Len(d) : ~IsGarbage(d[i])
                                /\ ~w.ub /\ w.ret = TRUE
                                /\ ~r.ub)
                               => (r.ret = TRUE /\ r.buf = d)
                    /\ \A n \in 1..MaxLen :
                           LET r == allocator_read(Globals, id, o, TRUE, n)
                               src_bytes == Addr(HdrStart(G.g_heap, found.ptr), o)
                           IN  ~r.ub =>
                                   (r.ret = TRUE <=>
                                       /\ o + n <= HdrRequested(G.g_heap, found.ptr)
                                       /\ \A i \in 0..(n - 1) :
                                              /\ InHeap(Addr(src_bytes, i), 1)
                                              /\ ~IsGarbage(RdByte(G.g_heap, Addr(src_bytes, i))))

\* C8: in every reachable state every free block has id = -1,
\* requested_size = 0 and cacheable = false, also a block that was freed
\* without merging with a neighbour.
C8_FreeBlockFields ==
    LET h == g_heap
        L == Blocks(Globals)
    IN  \A i \in FreeBlocks(Globals) :
            /\ HdrId(h, L[i]) = -1
            /\ HdrRequested(h, L[i]) = 0
            /\ HdrCacheable(h, L[i]) = 0

\* C9: the payload size of every allocated block is a multiple of the
\* platform's maximum fundamental alignment, also when the chosen free block
\* is handed out whole.
C9_PayloadAligned ==
    LET h == g_heap
        L == Blocks(Globals)
    IN  \A i \in AllocBlocks(Globals) : HdrSize(h, L[i]) % Align = 0

\* C10: from any reachable heap state a successful allocate immediately
\* followed by free of the returned id leaves the total of free payload bytes
\* as it was before the allocate, and when no other block is allocated the
\* list is again a single free block of payload size HEAP_SIZE - header size.
C10_MallocFreeRoundTrip ==
    LET G == allocator_init(Globals)
    IN  \A size \in AllocSizes, strategy \in Strategies :
            LET m == allocator_malloc(Globals, size, strategy)
                f == allocator_free(m.G, m.ret)
            IN  (~m.ub /\ m.ret >= 0 /\ ~f.ub) =>
                    /\ TotalFree(f.G) = TotalFree(G)
                    /\ AllocBlocks(G) = {} =>
                           /\ Blocks(f.G) = <<HeapBase>>
                           /\ HdrFree(f.G.g_heap, HeapBase) = 1
                           /\ HdrSize(f.G.g_heap, HeapBase) = HEAP_SIZE - HeaderSize

\* C11: free is idempotent: for any id and any reachable state, free(id)
\* followed immediately by free(id) leaves exactly the block list, heap
\* bytes, counters and cache state that a single free(id) leaves.
C11_FreeIdempotent ==
    \A id \in Ids :
        LET f1 == allocator_free(Globals, id)
            f2 == allocator_free(f1.G, id)
        IN  (~f1.ub /\ ~f2.ub) => f2.G = f1.G

\* C13: when no free block can hold the aligned request, allocate returns
\* -1, increments the failure counter by one, consumes no id (the next
\* successful allocate returns the id it would have returned otherwise) and
\* leaves the block list and all heap bytes unchanged.
C13_FailedMallocEffects ==
    LET G == allocator_init(Globals)
    IN  \A size \in AllocSizes \ {0}, strategy \in Strategies :
            LET m == allocator_malloc(Globals, size, strategy)
            IN  (/\ {i \in DOMAIN Blocks(G) :
                        /\ HdrFree(G.g_heap, Blocks(G)[i]) # 0
                        /\ HdrSize(G.g_heap, Blocks(G)[i]) >= align_size(size)} = {}
                 /\ ~m.ub)
                => /\ m.ret = -1
                   /\ m.G.g_alloc_fail = G.g_alloc_fail + 1
                   /\ m.G.g_next_id = G.g_next_id
                   /\ m.G.g_head = G.g_head
                   /\ m.G.g_heap = G.g_heap
                   /\ \A size2 \in AllocSizes :
                          LET after   == allocator_malloc(m.G, size2, strategy)
                              instead == allocator_malloc(Globals, size2, strategy)
                          IN  /\ after.ub = instead.ub
                              /\ after.ret = instead.ret
                              /\ after.G.g_heap = instead.G.g_heap

\* an allocation has failed while the block of the latest id is live
C13_Witness ==
    /\ ~undefined
    /\ g_alloc_fail >= 1
    /\ g_alloc_success >= 1
    /\ g_next_id = g_alloc_success
    /\ \E i \in AllocBlocks(Globals) :
           HdrId(g_heap, Blocks(Globals)[i]) = g_next_id - 1

\* C14: free, set_cacheable and access called with a negative id, with an id
\* that was never returned, or with an id whose block is already freed are
\* no-ops: block list, header fields, heap bytes, counters and the cache
\* controller state are unchanged.
C14_BadIdNoOp ==
    LET G == allocator_init(Globals)
        NoOp(S, id) ==
            /\ LET r == allocator_free(S, id) IN ~r.ub => r.G = S
            /\ \A cacheable \in BOOLEAN :
                   LET r == allocator_set_block_cacheable(S, id, cacheable)
                   IN  ~r.ub => r.G = S
            /\ \A is_write \in BOOLEAN :
                   LET r == allocator_access(S, id, is_write) IN ~r.ub => r.G = S
    IN  /\ NoOp(G, -1)
        /\ \A id \in Ids : id >= G.g_next_id => NoOp(G, id)
        /\ \A id \in Ids :
               LET f == allocator_free(Globals, id)
               IN  (id >= 0 /\ ~f.ub) => NoOp(f.G, id)

\* ------------------------------------------- fit selection on block lists
\* the state before the first call
Globals0 ==
    [g_heap |-> [o \in 0..(HEAP_SIZE - 1) |-> 0], g_head |-> NULL, g_next_id |-> 0,
     g_cache_initialized |-> FALSE, g_alloc_requests |-> 0, g_alloc_success |-> 0,
     g_alloc_fail |-> 0, g_cache |-> CacheReset]

\* request sizes that carve small blocks: one and two alignment units
FitSizes == {Align, 2 * Align}

\* allocator_malloc(sizes[1]); allocator_malloc(sizes[2]); ...
RECURSIVE MallocAll(_, _)
MallocAll(G, sizes) ==
    IF sizes = <<>> THEN G
    ELSE MallocAll(allocator_malloc(G, Head(sizes), "First").G, Tail(sizes))

\* one more allocation: of what is left in the last block when fill, of one
\* alignment unit otherwise
MallocRest(G, fill) ==
    LET L    == Blocks(G)
        rest == HdrSize(G.g_heap, L[Len(L)])
    IN  IF fill
        THEN allocator_malloc(G, rest - (rest % Align), "First").G
        ELSE allocator_malloc(G, Align, "First").G

\* allocator_free(id) for the ids of the set
RECURSIVE FreeAll(_, _)
FreeAll(G, ids) ==
    IF ids = {} THEN G
    ELSE LET id == CHOOSE x \in ids : TRUE
         IN  FreeAll(allocator_free(G, id).G, ids \ {id})

\* the block lists that MaxBlocks allocations of small blocks, one more
\* allocation and frees of some of the blocks leave
FitInit ==
    \E sizes \in [1..MaxBlocks -> FitSizes], fill \in BOOLEAN, freed \in SUBSET (0..MaxBlocks) :
        \E G \in {FreeAll(MallocRest(MallocAll(allocator_init(Globals0), sizes), fill),
                           freed)} :
            /\ g_heap = G.g_heap
            /\ g_head = G.g_head
            /\ g_next_id = G.g_next_id
            /\ g_cache_initialized = G.g_cache_initialized
            /\ g_alloc_requests = G.g_alloc_requests
            /\ g_alloc_success = G.g_alloc_success
            /\ g_alloc_fail = G.g_alloc_fail
            /\ g_cache = G.g_cache
            /\ undefined = FALSE

\* the next allocation on such a list
FitMalloc(size, strategy) ==
    /\ g_alloc_requests < MaxBlocks + 2
    /\ Do(allocator_malloc(Globals, size, strategy))

FitNext == \E size \in FitSizes \cup {1, HEAP_SIZE}, strategy \in Strategies :
               FitMalloc(size, strategy)

FitSpec == FitInit /\ [][FitNext]_vars

\* the list positions of the free blocks with size >= S
Fitting(h, L, S) == {i \in DOMAIN L : HdrFree(h, L[i]) # 0 /\ HdrSize(h, L[i]) >= S}

\* the reference choice among them
RefFit(h, L, S, strategy) ==
    LET F == Fitting(h, L, S)
    IN  IF F = {} THEN NULL
        ELSE IF strategy = "First" THEN L[SetMin(F)]
        ELSE IF strategy = "Best"
        THEN L[SetMin({i \in F : \A j \in F : HdrSize(h, L[i]) <= HdrSize(h, L[j])})]
        ELSE L[SetMin({i \in F : \A j \in F : HdrSize(h, L[i]) >= HdrSize(h, L[j])})]

\* C12: for every block list and aligned request S the block find_fit
\* chooses is the reference choice among the free blocks with size >= S:
\* First the earliest, Best one of minimum size and on equal sizes the
\* earliest, Worst one of maximum size and on equal sizes the earliest; none
\* if no free block has size >= S.
C12_FitIsReference ==
    \A S \in {0, Align, 2 * Align, 3 * Align, HEAP_SIZE}, strategy \in Strategies :
        find_fit(g_heap, g_head, S, strategy, NULL, Fuel)
            = [ub |-> FALSE, ptr |-> RefFit(g_heap, Blocks(Globals), S, strategy)]

\* a list on which the latest allocation took, whole, the earlier of two free
\* blocks of the same size, passing over a larger free block before it
C12_Witness ==
    LET h == g_heap
        L == Blocks(Globals)
    IN  \E i, j, k \in DOMAIN L :
            /\ i < j /\ j + 1 < k
            /\ HdrFree(h, L[i]) = 1 /\ HdrFree(h, L[j]) = 0 /\ HdrFree(h, L[k]) = 1
            /\ HdrFree(h, L[j + 1]) = 0
            /\ HdrId(h, L[j]) = g_next_id - 1
            /\ HdrId(h, L[j + 1]) < g_next_id - 1
            /\ HdrSize(h, L[i]) > HdrSize(h, L[j])
            /\ HdrSize(h, L[k]) = HdrSize(h, L[j])

\* ------------------------------------------------ the cache under its API
\* geometries handed to cache_add_level / cache_configure_level, as
\* <<size_bytes, block_size, associativity, access_latency_cycles>>: one set
\* of two ways, and two sets of one way
CacheGeoms == {<<2, 1, 2, 1>>, <<2, 1, 1, 1>>}
\* addresses handed to cache_access
CacheAddrs == 0..2

\* the call r completes, or runs into undefined behaviour
Apply(r) ==
    /\ ~undefined
    /\ undefined' = r.ub
    /\ g_heap' = r.G.g_heap
    /\ g_head' = r.G.g_head
    /\ g_next_id' = r.G.g_next_id
    /\ g_cache_initialized' = r.G.g_cache_initialized
    /\ g_alloc_requests' = r.G.g_alloc_requests
    /\ g_alloc_success' = r.G.g_alloc_success
    /\ g_alloc_fail' = r.G.g_alloc_fail
    /\ g_cache' = r.G.g_cache

\* a call of the cache API leaves the cache c
ApplyCache(c) == Apply(Returns([Globals EXCEPT !.g_cache = c], 0))

\* cache_access(addr, is_write)
CAccess(addr) ==
    /\ g_cache.m_total_accesses < MaxAccesses
    /\ ApplyCache(CacheAccess(g_cache, addr))

\* cache_reset()
CReset ==
    /\ ~undefined
    /\ ApplyCache(CacheReset)

\* cache_add_level(size_bytes, block_size, associativity, access_latency_cycles)
CAddLevel(geom) ==
    /\ Len(g_cache.m_levels) < MaxLevels
    /\ ApplyCache(AddLevel(g_cache, geom[1], geom[2], geom[3], geom[4]))

\* cache_configure_level(level_index, size_bytes, block_size, associativity,
\* access_latency_cycles)
CConfigureLevel(level_index, geom) ==
    /\ ~undefined
    /\ ApplyCache(ConfigureLevel(g_cache, level_index, geom[1], geom[2], geom[3], geom[4]))

\* the one allocation that gives reads a block
CMalloc ==
    /\ g_next_id < 1
    /\ \E r \in {allocator_malloc(Globals, Align, "First")} : Apply(r)

\* allocator_read(id, offset, dst, size) of a live block
CRead(id, offset, size) ==
    /\ g_cache.m_total_accesses + size <= MaxAccesses
    /\ \E r \in {allocator_read(Globals, id, offset, TRUE, size)} : Apply(r)

\* allocator_write(id, offset, src, size) to a live block
CWrite(id, offset, src) ==
    /\ g_cache.m_total_accesses + Len(src) <= MaxAccesses
    /\ \E r \in {allocator_write(Globals, id, offset, TRUE, src)} : Apply(r)

CacheNext ==
    \/ \E addr \in CacheAddrs : CAccess(addr)
    \/ CReset
    \/ \E geom \in CacheGeoms : CAddLevel(geom)
    \/ \E level_index \in 0..MaxLevels, geom \in CacheGeoms : CConfigureLevel(level_index, geom)
    \/ CMalloc
    \/ \E offset \in 0..1, size \in 1..MaxLen : CRead(0, offset, size)
    \/ \E src \in {<<65>>, <<65, 65>>} : CWrite(0, 0, src)

CacheSpec == Init /\ [][CacheNext]_vars

\* ------------------------------------------------------ claims about the cache
\* the block addresses resident in a level: a valid line of set s with tag t
\* holds block address t * m_num_sets + s
Resident(lvl) ==
    {lvl.m_sets[q[1]][q[2]].tag * lvl.m_num_sets + q[1] :
        q \in {p \in (DOMAIN lvl.m_sets) \X (0..(lvl.m_associativity - 1)) :
                  lvl.m_sets[p[1]][p[2]].valid}}

\* the hierarchy has been the same since the counters were last zeroed: every
\* access went to level 0 and every miss of a level went to the next one
FixedHierarchy(c) ==
    /\ Len(c.m_levels) >= 2
    /\ c.m_levels[1].m_stats.accesses = c.m_total_accesses
    /\ \A i \in 1..(Len(c.m_levels) - 1) :
           /\ c.m_levels[i + 1].m_stats.accesses = c.m_levels[i].m_stats.misses
           /\ c.m_levels[i + 1].m_block_size = c.m_levels[i].m_block_size

\* C15: in a fixed hierarchy of two or more levels with equal block size, every
\* block address resident in level i is also resident in level i+1.
C15_Inclusion ==
    FixedHierarchy(g_cache) =>
        \A i \in 1..(Len(g_cache.m_levels) - 1) :
            Resident(g_cache.m_levels[i]) \subseteq Resident(g_cache.m_levels[i + 1])

\* C16: global hits + global misses = global accesses, and for every configured
\* level hits + misses = accesses of that level, after any sequence of access,
\* add_level, configure_level and reset calls.
C16_CountersAddUp ==
    /\ g_cache.m_total_hits + g_cache.m_total_misses = g_cache.m_total_accesses
    /\ \A i \in DOMAIN g_cache.m_levels :
           LET st == g_cache.m_levels[i].m_stats
           IN  st.hits + st.misses = st.accesses

\* hits and misses were counted in two levels, level 0 reconfigured in between
C16_Witness ==
    /\ Len(g_cache.m_levels) = 2
    /\ g_cache.m_total_hits >= 1
    /\ g_cache.m_total_misses >= 1
    /\ g_cache.m_levels[1].m_stats.accesses < g_cache.m_total_accesses
    /\ g_cache.m_levels[1].m_stats.misses >= 1
    /\ g_cache.m_levels[2].m_stats.hits >= 1
    /\ g_cache.m_levels[2].m_stats.misses >= 1

\* the addresses the cache is driven with: those of cache_access and the
\* payload bytes of the first block
AccessAddrs == CacheAddrs \cup {HeapBase + HeaderSize + o : o \in 0..MaxLen}

\* the block of addr is resident in lvl
InLevel(lvl, addr) == (addr \div lvl.m_block_size) \in Resident(lvl)

\* the levels of c that hold the block of addr
LevelsHolding(c, addr) == {i \in DOMAIN c.m_levels : InLevel(c.m_levels[i], addr)}

\* C17: an access that hits in level k changes no line and no counter of a level
\* deeper than k; an access that misses in every level inserts the address into
\* every level; so a cold access followed at once by a second access to the
\* address gives one miss per level, then one level-0 hit and nothing in the
\* deeper levels.
C17_HitFrameColdRepeat ==
    \A addr \in AccessAddrs :
        LET c0   == g_cache
            hold == LevelsHolding(c0, addr)
            c1   == CacheAccess(c0, addr)
            c2   == CacheAccess(c1, addr)
            n    == Len(c0.m_levels)
        IN  n >= 1 =>
              /\ hold # {} =>
                   LET k == SetMin(hold)
                   IN  /\ \A j \in (k + 1)..n : c1.m_levels[j] = c0.m_levels[j]
                       /\ c1.m_levels[k].m_stats.hits = c0.m_levels[k].m_stats.hits + 1
                       /\ c1.m_total_hits = c0.m_total_hits + 1
              /\ hold = {} =>
                   /\ \A j \in 1..n :
                          /\ InLevel(c1.m_levels[j], addr)
                          /\ c1.m_levels[j].m_stats.misses = c0.m_levels[j].m_stats.misses + 1
                          /\ c1.m_levels[j].m_stats.hits = c0.m_levels[j].m_stats.hits
                   /\ c1.m_total_misses = c0.m_total_misses + 1
                   /\ c2.m_levels[1].m_stats.hits = c1.m_levels[1].m_stats.hits + 1
                   /\ c2.m_levels[1].m_stats.misses = c1.m_levels[1].m_stats.misses
                   /\ \A j \in 2..n : c2.m_levels[j] = c1.m_levels[j]

\* a cold access was followed by a hit in level 0 and another access hit in
\* level 1 of a two-level hierarchy
C17_Witness ==
    /\ Len(g_cache.m_levels) = 2
    /\ g_cache.m_levels[1].m_stats.hits >= 1
    /\ g_cache.m_levels[2].m_stats.hits >= 1
    /\ g_cache.m_levels[2].m_stats.misses >= 1
    /\ g_cache.m_levels[2].m_stats.accesses = g_cache.m_levels[1].m_stats.misses

\* C18: once an access to A has inserted it, a run of further accesses to A
\* alone adds nothing to the miss counter of any level.
C18_RepeatAddsNoMiss ==
    \A addr \in AccessAddrs :
        LET c0 == CacheAccess(g_cache, addr)
            c1 == CacheAccess(c0, addr)
            c2 == CacheAccess(c1, addr)
            c3 == CacheAccess(c2, addr)
        IN  \A cn \in {c1, c2, c3} :
                /\ cn.m_total_misses = c0.m_total_misses
                /\ \A j \in DOMAIN c0.m_levels :
                       cn.m_levels[j].m_stats.misses = c0.m_levels[j].m_stats.misses

\* one address was accessed three times in a row: one miss, then two hits
C18_Witness ==
    /\ Len(g_cache.m_levels) = 2
    /\ g_cache.m_total_accesses = 3
    /\ g_cache.m_levels[1].m_block_size = 1
    /\ g_cache.m_levels[1].m_stats.accesses = 3
    /\ g_cache.m_levels[1].m_stats.hits = 2
    /\ g_cache.m_levels[2].m_stats.misses = 1
    /\ g_cache.m_total_misses = 1

\* C20: no set of any cache level holds two valid lines with the same tag.
C20_NoDuplicateTags ==
    \A i \in DOMAIN g_cache.m_levels :
        LET lvl == g_cache.m_levels[i]
        IN  \A s \in DOMAIN lvl.m_sets :
                \A w1, w2 \in DOMAIN lvl.m_sets[s] :
                    (/\ w1 # w2
                     /\ lvl.m_sets[s][w1].valid
                     /\ lvl.m_sets[s][w2].valid) => lvl.m_sets[s][w1].tag # lvl.m_sets[s][w2].tag

\* cache_access for each address of a sequence, first to last
RECURSIVE AccessSeq(_, _)
AccessSeq(c, addrs) ==
    IF addrs = <<>> THEN c ELSE AccessSeq(CacheAccess(c, Head(addrs)), Tail(addrs))

\* the addresses of n bytes from offset on in the payload of the first block
PayloadAddrs(offset, n) == [i \in 1..n |-> HeapBase + HeaderSize + offset + (i - 1)]

\* the reads and writes of the first block that pass the range check, as
\* <<offset, bytes>>
InRangeRuns == (0..1) \X {<<65>>, <<65, 65>>}

\* C19 as stated: every call of access raises the clock, and a read or write of
\* n bytes makes its n accesses in increasing offset order and raises the clock
\* by n.
C19_EveryAccessRaisesClock ==
    /\ \A addr \in AccessAddrs :
           CacheAccess(g_cache, addr).m_timestamp > g_cache.m_timestamp
    /\ g_next_id >= 1 =>
           \A run \in InRangeRuns :
               LET n == Len(run[2])
                   r == allocator_read(Globals, 0, run[1], TRUE, n)
                   w == allocator_write(Globals, 0, run[1], TRUE, run[2])
               IN  /\ ~r.ub => r.G.g_cache.m_timestamp = g_cache.m_timestamp + n
                   /\ ~w.ub => w.G.g_cache.m_timestamp = g_cache.m_timestamp + n

\* C19 amended: with at least one level configured every call of access raises
\* the clock by one, and a read or write of n bytes makes its n accesses in
\* increasing offset order and raises the clock by n; with no level configured
\* access, read and write leave the clock alone.
C19_ClockRaisedWhenConfigured ==
    LET step == IF g_cache.m_levels = <<>> THEN 0 ELSE 1
    IN  /\ \A addr \in AccessAddrs :
               CacheAccess(g_cache, addr).m_timestamp = g_cache.m_timestamp + step
        /\ g_next_id >= 1 =>
               \A run \in InRangeRuns :
                   LET n    == Len(run[2])
                       r    == allocator_read(Globals, 0, run[1], TRUE, n)
                       w    == allocator_write(Globals, 0, run[1], TRUE, run[2])
                       want == AccessSeq(g_cache, PayloadAddrs(run[1], n))
                   IN  /\ want.m_timestamp = g_cache.m_timestamp + n * step
                       /\ ~r.ub => r.G.g_cache = want
                       /\ ~w.ub => w.G.g_cache = want

\* a write and a two-byte read have driven a level of one-byte blocks: the two
\* bytes are resident in level 0 with consecutive clock values
C19_Witness ==
    /\ g_next_id >= 1
    /\ RdByte(g_heap, HeapBase + HeaderSize) = 65
    /\ g_cache.m_levels # <<>>
    /\ g_cache.m_levels[1].m_block_size = 1
    /\ g_cache.m_timestamp >= 3
    /\ LET set == SetOf(g_cache.m_levels[1], 0)
       IN  \E w1, w2 \in DOMAIN set :
               /\ set[w1].valid
               /\ set[w2].valid
               /\ set[w1].tag * g_cache.m_levels[1].m_num_sets = HeapBase + HeaderSize
               /\ set[w2].tag * g_cache.m_levels[1].m_num_sets = HeapBase + HeaderSize + 1
               /\ set[w2].last_used = set[w1].last_used + 1
               /\ set[w2].last_used = g_cache.m_timestamp

\* C21: an access that hits in a level evicts no other block from it: the hit
\* level, and every level above it that already held the address, has the
\* same resident block addresses before and after the access.
C21_HitEvictsNothing ==
    \A addr \in AccessAddrs :
        LET hold == LevelsHolding(g_cache, addr)
            c1   == CacheAccess(g_cache, addr)
        IN  hold # {} =>
                \A j \in hold :
                    j <= SetMin(hold) =>
                        Resident(c1.m_levels[j]) = Resident(g_cache.m_levels[j])

\* C25: insert into a set with an invalid way fills an invalid way and changes
\* no valid line; insert into a full set overwrites one line, of least
\* frequency and, among those, of least last_used; the written line ends with
\* freq = 1 and last_used = the clock; no other set changes.
C25_InsertVictim ==
    \A i \in DOMAIN g_cache.m_levels, addr \in AccessAddrs :
        LET lvl     == g_cache.m_levels[i]
            t       == g_cache.m_timestamp + 1
            it      == compute_index_tag(lvl, addr)
            set     == SetOf(lvl, it.set_idx)
            lvl1    == LevelInsert(lvl, addr, t)
            set1    == SetOf(lvl1, it.set_idx)
            written == [valid |-> TRUE, tag |-> it.tag, freq |-> 1, last_used |-> t]
            invalid == {w \in DOMAIN set : ~set[w].valid}
        IN  /\ \A s \in 0..(lvl.m_num_sets - 1) :
                   s # it.set_idx => SetOf(lvl1, s) = SetOf(lvl, s)
            /\ lvl1.m_stats = lvl.m_stats
            /\ \E w \in DOMAIN set :
                   /\ set1[w] = written
                   /\ \A v \in DOMAIN set : v # w => set1[v] = set[v]
                   /\ invalid # {} => w \in invalid
                   /\ invalid = {} =>
                          \A v \in DOMAIN set :
                              \/ set[w].freq < set[v].freq
                              \/ /\ set[w].freq = set[v].freq
                                 /\ set[w].last_used <= set[v].last_used

\* a level of one set of two ways took three misses, so a full set was
\* inserted into, and holds a line hit since next to the line just written
C25_Witness ==
    \E i \in DOMAIN g_cache.m_levels :
        LET lvl == g_cache.m_levels[i]
            set == SetOf(lvl, 0)
        IN  /\ lvl.m_num_sets = 1
            /\ lvl.m_associativity = 2
            /\ lvl.m_stats.misses >= 3
            /\ \E w, v \in DOMAIN set :
                   /\ set[w].valid /\ set[v].valid
                   /\ set[w].freq >= 2
                   /\ set[v].freq = 1
                   /\ set[v].last_used = g_cache.m_timestamp
                   /\ set[v].tag # set[w].tag

\* the sum of the latencies of the first k levels
RECURSIVE SumLatency(_, _)
SumLatency(levels, k) ==
    IF k = 0 THEN 0 ELSE SumLatency(levels, k - 1) + levels[k].m_latency

\* C26: one access adds to the global penalty the latencies of the levels it
\* visits (the first k+1 on a hit in level k; all of them and the memory
\* latency when every level misses), and adds to the miss penalty of each level
\* that missed that total less the latencies of the levels up to and including
\* it; the miss penalty of the other levels is unchanged.
C26_PenaltyAccounting ==
    \A addr \in AccessAddrs :
        LET c0     == g_cache
            n      == Len(c0.m_levels)
            hold   == LevelsHolding(c0, addr)
            c1     == CacheAccess(c0, addr)
            hit    == IF hold = {} THEN n + 1 ELSE SetMin(hold)
            total  == IF hold = {} THEN SumLatency(c0.m_levels, n) + c0.m_memory_latency
                      ELSE SumLatency(c0.m_levels, hit)
        IN  n >= 1 =>
              /\ c1.m_total_penalty = c0.m_total_penalty + total
              /\ \A i \in 1..n :
                     c1.m_levels[i].m_stats.miss_penalty_accum =
                         c0.m_levels[i].m_stats.miss_penalty_accum +
                             (IF i < hit THEN total - SumLatency(c0.m_levels, i) ELSE 0)

\* two levels of different latency have each charged a miss, and level 1 has
\* hit after a miss of level 0
C26_Witness ==
    /\ Len(g_cache.m_levels) = 2
    /\ g_cache.m_levels[1].m_latency # g_cache.m_levels[2].m_latency
    /\ g_cache.m_levels[2].m_stats.hits >= 1
    /\ g_cache.m_levels[2].m_stats.misses >= 1
    /\ g_cache.m_levels[1].m_stats.miss_penalty_accum > g_cache.m_levels[2].m_stats.miss_penalty_accum
    /\ g_cache.m_levels[2].m_stats.miss_penalty_accum >= g_cache.m_memory_latency
    /\ g_cache.m_total_penalty > 0

\* ------------------------------------------- further claims about the allocator
\* C22: while the cacheable flag of a live block is false, access, read and
\* write on its id leave the cache controller's clock, counters and lines
\* unchanged, and access leaves the block's hit counter unchanged.
C22_FlagGatesCache ==
    LET G == allocator_init(Globals)
    IN  \A id \in 0..MaxId :
            LET found == LiveBlock(G, id)
            IN  (/\ ~found.ub
                 /\ found.ptr # NULL
                 /\ HdrCacheable(G.g_heap, found.ptr) = 0) =>
                    /\ \A is_write \in BOOLEAN :
                           LET a == allocator_access(Globals, id, is_write)
                           IN  ~a.ub =>
                                   /\ a.G.g_cache = G.g_cache
                                   /\ HdrHits(a.G.g_heap, found.ptr) = HdrHits(G.g_heap, found.ptr)
                    /\ \A offset \in Offsets, src \in Buffers :
                           LET r == allocator_read(Globals, id, offset, TRUE, Len(src))
                               w == allocator_write(Globals, id, offset, TRUE, src)
                           IN  /\ ~r.ub => r.G.g_cache = G.g_cache
                               /\ ~w.ub => w.G.g_cache = G.g_cache

\* the sequence L with x put in after position i
InsertAfter(L, i, x) == SubSeq(L, 1, i) \o <<x>> \o SubSeq(L, i + 1, Len(L))

\* C23: allocating aligned size S from the chosen free block of size C, with
\* R = C - S: if R > header size + slack the chosen block gets size S and a
\* new free block of size R - header size (id -1, not cacheable) is linked
\* directly after it and before the old successor; otherwise the list is
\* unchanged and the allocated block keeps size C.
C23_SplitRule ==
    LET G == allocator_init(Globals)
        L == Blocks(G)
    IN  \A size \in FitSizes \cup {1, HEAP_SIZE}, strategy \in Strategies :
            LET S   == align_size(size)
                fit == find_fit(G.g_heap, G.g_head, S, strategy, NULL, Fuel)
                m   == allocator_malloc(Globals, size, strategy)
                b   == fit.ptr
                C   == HdrSize(G.g_heap, b)
                R   == C - S
                old == HdrNext(G.g_heap, b)
                nb  == b + HeaderSize + S
                h   == m.G.g_heap
            IN  (~fit.ub /\ b # NULL /\ ~m.ub) =>
                    IF R > HeaderSize + SplitSlack
                    THEN /\ HdrSize(h, b) = S
                         /\ HdrNext(h, b) = nb
                         /\ HdrId(h, nb) = -1
                         /\ HdrFree(h, nb) = 1
                         /\ HdrCacheable(h, nb) = 0
                         /\ HdrSize(h, nb) = R - HeaderSize
                         /\ HdrNext(h, nb) = old
                         /\ \E i \in DOMAIN L :
                                L[i] = b /\ Blocks(m.G) = InsertAfter(L, i, nb)
                    ELSE /\ HdrSize(h, b) = C
                         /\ HdrNext(h, b) = old
                         /\ Blocks(m.G) = L

\* the allocation just made split a free block that had a successor: the new
\* block is followed by a free block and that by a further block
C23_Witness ==
    LET L == Blocks(Globals)
    IN  /\ g_alloc_requests = MaxBlocks + 2
        /\ \E i \in DOMAIN L :
               /\ i + 2 <= Len(L)
               /\ HdrFree(g_heap, L[i]) = 0
               /\ HdrId(g_heap, L[i]) = g_next_id - 1
               /\ HdrFree(g_heap, L[i + 1]) = 1
               /\ HdrSize(g_heap, L[i + 1]) + HeaderSize + HdrSize(g_heap, L[i]) > 2 * Align

StaleIdRejected(S, id) ==
    /\ \A is_write \in BOOLEAN :
           LET a == allocator_access(S, id, is_write) IN ~a.ub => a.G = S
    /\ \A cacheable \in BOOLEAN :
           LET s == allocator_set_block_cacheable(S, id, cacheable) IN ~s.ub => s.G = S
    /\ \A offset \in {0, 1}, src \in {<<65>>, <<65, 65>>} :
           LET r == allocator_read(S, id, offset, TRUE, Len(src))
               w == allocator_write(S, id, offset, TRUE, src)
           IN  /\ ~r.ub => (r.ret = FALSE /\ r.G = S)
               /\ ~w.ub => (w.ret = FALSE /\ w.G = S)

\* C27: once free(id) has completed for a live id, read, write, access and
\* set_cacheable with that id fail or are no-ops, also after the allocations
\* that follow, which get other ids.
C27_NoUseAfterFree ==
    LET G == allocator_init(Globals)
    IN  \A id \in 0..MaxId :
            LET found == LiveBlock(G, id)
                f     == allocator_free(Globals, id)
            IN  (~found.ub /\ found.ptr # NULL /\ ~f.ub) =>
                    /\ StaleIdRejected(f.G, id)
                    /\ \A size \in AllocSizes, strategy \in Strategies :
                           LET m == allocator_malloc(f.G, size, strategy)
                           IN  ~m.ub => (m.ret # id /\ StaleIdRejected(m.G, id))

\* what a live block at header address p keeps to itself: the header fields
\* size, requested_size and id, and the payload bytes [0, requested_size)
\* (those that lie in g_heap), read in the heap h
OwnBytes(h0, h, p) ==
    LET start == HdrStart(h0, p)
        req   == HdrRequested(h0, p)
    IN  [size      |-> HdrSize(h, p),
         requested |-> HdrRequested(h, p),
         id        |-> HdrId(h, p),
         payload   |-> [i \in {k \in 0..(HEAP_SIZE - 1) : k < req /\ InHeap(start + k, 1)} |->
                           RdByte(h, start + i)]]

\* the call r on another id left the live block at p as it was in G
Untouched(G, r, p) == ~r.ub => OwnBytes(G.g_heap, r.G.g_heap, p) = OwnBytes(G.g_heap, G.g_heap, p)

\* the allocator driven with request sizes, offsets and lengths within the
\* heap size
IsoSizes   == {s \in AllocSizes : s <= HEAP_SIZE}
IsoOffsets == {o \in Offsets : o <= HEAP_SIZE} \cup {HEAP_SIZE}

IsoNext ==
    \/ \E size \in IsoSizes, strategy \in Strategies : Malloc(size, strategy)
    \/ \E id \in Ids : Free(id)
    \/ \E id \in Ids, cacheable \in BOOLEAN : SetCacheable(id, cacheable)
    \/ \E id \in Ids, is_write \in BOOLEAN : Access(id, is_write)
    \/ \E id \in Ids, offset \in IsoOffsets, size \in 0..MaxLen :
           Read(id, offset, TRUE, size)
    \/ \E id \in Ids, offset \in IsoOffsets, src \in Buffers :
           Write(id, offset, TRUE, src)

IsoSpec == Init /\ [][IsoNext]_vars

====
